---- MODULE Spec2Model ----
(***************************************************************************)
(* Background task broker of the chat server (src/src/taskmanager.ts):     *)
(* the task registry, the runner of one task (processTask and              *)
(* streamFromOllama), the subscription protocol (subscribe,                *)
(* notifySubscribers, closeSubscribers), the keep-alive timer and the      *)
(* deferred clean-up, with the tool dispatch of src/src/python_executor.ts.*)
(*                                                                         *)
(* The server is single-threaded: every action below is one run of the     *)
(* event loop, from the event that starts a handler to its next await.     *)
(***************************************************************************)
EXTENDS Integers, Sequences, FiniteSets, TLC

\* ------------------------------------------------------------------ bounds
\* NDJSON lines one engine stream delivers before it ends
MaxLines == 1
\* tool calls in one engine response
MaxTools == 2
\* subscribe calls in one behaviour
MaxSinks == 2
\* keep-alive ticks of one task
MaxBeats == 1
\* largest fromChunkIndex a subscriber asks for
MaxFrom == 1
\* chat requests in one behaviour of the registry specification
MaxTasks == 2

\* ------------------------------------------------------- program constants
MAX_ITERATIONS == 5

\* ------------------------------------------------------------- input sets
Tokens == {"Hel", "lo"}

\* One line of the engine's NDJSON stream: a blank line, a line that is not
\* JSON, or a JSON record whose message content may be empty.
Lines ==
    {[kind |-> "blank", content |-> ""], [kind |-> "malformed", content |-> ""]}
    \cup {[kind |-> "json", content |-> c] : c \in Tokens \cup {""}}

RECURSIVE SeqsUpTo(_, _)
SeqsUpTo(S, n) ==
    IF n = 0 THEN {<<>>}
    ELSE LET shorter == SeqsUpTo(S, n - 1)
         IN shorter \cup {Append(s, x) : s \in {q \in shorter : Len(q) = n - 1}, x \in S}

\* The history handleChat hands to startTask.
InitialMessages ==
    <<[role |-> "system", content |-> "prompt"], [role |-> "user", content |-> "question"]>>

\* ------------------------------------------------------------------ state
VARIABLES
    activeTasks,    \* the keys of the activeTasks map
    task,           \* the GenerationTask objects, by task id (1, 2, ...)
    run,            \* processTask's locals and timers, by task id
    sink,           \* the stream controllers, by sink id (1, 2, ...)
    db,             \* the messages db.addMessage has stored
    trace           \* what each task did and was given so far: status writes,
                    \* engine requests, stream reads and their texts, tool
                    \* calls, keep-alive ticks, the texts handed to
                    \* db.addMessage, the "max iterations" warning
VARIABLE
    reply           \* the last lookup and what it returned: a subscribe that
                    \* found no task, getTaskStatus,
                    \* getActiveTaskForConversation

vars == <<activeTasks, task, run, sink, db, trace, reply>>

TaskIds == DOMAIN task
SinkIds == DOMAIN sink

\* ----------------------------------------------------------------- events
ChunkEvent(content, index) == [type |-> "chunk", content |-> content, index |-> index]
DoneEvent == [type |-> "done"]
ErrorEvent(msg) == [type |-> "error", error |-> msg]
KeepAlive == [type |-> "keep-alive"]

\* null, as a lookup returns it
Null == [kind |-> "null"]

\* A call of a lookup, by task id or by conversation id, with its result.
Reply(op, taskId, conversationId, result) ==
    [op |-> op, taskId |-> taskId, conversationId |-> conversationId, result |-> result]

IsChunk(e) == e.type = "chunk"
IsTerminal(e) == e.type \in {"done", "error"}

\* Variant: the notice does not name the tool.
ToolNoticeUnnamed(funcName) == ChunkEvent("Executing tool", -1)

ToolNotice(funcName) == ChunkEvent("Executing " \o funcName, -1)

\* ------------------------------------------------------------ controllers
\* controller.enqueue throws once the stream was closed or cancelled.
CanEnqueue(s) == ~s.closed /\ ~s.cancelled

\* controller.enqueue(msg) on every sink of subs that accepts it
EnqueueAll(sk, subs, ev) ==
    [i \in DOMAIN sk |->
        IF i \in subs /\ CanEnqueue(sk[i])
        THEN [sk[i] EXCEPT !.queue = Append(@, ev)]
        ELSE sk[i]]

\* Variant: one try around the whole loop, so the first enqueue that throws
\* ends the broadcast and nothing is deleted.
notifyUntilThrow(sk, subs, ev) ==
    LET failing == {i \in subs : ~CanEnqueue(sk[i])}
        reached == {i \in subs : \A f \in failing : i < f}
    IN [sink |-> EnqueueAll(sk, reached, ev), subscribers |-> subs]

\* Variant: the catch block is empty, as in the keep-alive loop.
notifyKeepClosed(sk, subs, ev) ==
    [sink |-> EnqueueAll(sk, subs, ev), subscribers |-> subs]

\* Variant: one list of controllers for all tasks, every broadcast goes to
\* every stream.
notifyAllSinks(sk, subs, ev) ==
    [sink |-> EnqueueAll(sk, DOMAIN sk, ev),
     subscribers |-> {i \in subs : CanEnqueue(sk[i])}]

\* notifySubscribers: enqueue on every subscriber; one whose enqueue throws is
\* deleted from the set.
notifySubscribers(sk, subs, ev) ==
    [sink |-> EnqueueAll(sk, subs, ev),
     subscribers |-> {i \in subs : CanEnqueue(sk[i])}]

\* Variant: the set is not cleared after the controllers were closed.
closeWithoutClear(sk, subs) ==
    [sink |-> [i \in DOMAIN sk |->
                  IF i \in subs /\ CanEnqueue(sk[i])
                  THEN [sk[i] EXCEPT !.closed = TRUE]
                  ELSE sk[i]],
     subscribers |-> subs]

\* closeSubscribers: close every subscriber, then clear the set.
closeSubscribers(sk, subs) ==
    [sink |-> [i \in DOMAIN sk |->
                  IF i \in subs /\ CanEnqueue(sk[i])
                  THEN [sk[i] EXCEPT !.closed = TRUE]
                  ELSE sk[i]],
     subscribers |-> {}]

\* ----------------------------------------------------------------- runner
activeTools(useSearch, useCode) ==
    (IF useSearch THEN <<"web_search">> ELSE <<>>)
    \o (IF useCode THEN <<"execute_python">> ELSE <<>>)

hasTools(rn) == Len(activeTools(rn.useSearch, rn.useCode)) > 0

\* Variant: only a later iteration streams, with or without tools.
shouldStreamLater(rn) == rn.iteration > 1

\* Variant: a task with tools never streams.
shouldStreamNoTools(rn) == ~hasTools(rn)

shouldStream(rn) == ~hasTools(rn) \/ rn.iteration > 1

\* Variant: the tool list goes with every request of a task with tools.
requestBodyAlwaysTools(rn) ==
    [messages |-> rn.messages,
     stream |-> shouldStream(rn),
     tools |-> IF hasTools(rn)
               THEN activeTools(rn.useSearch, rn.useCode) ELSE <<>>]

requestBody(rn) ==
    [messages |-> rn.messages,
     stream |-> shouldStream(rn),
     tools |-> IF hasTools(rn) /\ rn.iteration = 1
               THEN activeTools(rn.useSearch, rn.useCode) ELSE <<>>]

\* The outcome of awaiting a tool: a text that was returned, or an exception
\* that was thrown with this text as its message.
Returned(text) == [throws |-> FALSE, text |-> text]
Thrown(text) == [throws |-> TRUE, text |-> text]

\* Variant: no try/catch around the dispatch, a failing tool throws.
executeToolUncaught(toolName) ==
    CASE toolName = "web_search" ->
            {Returned("search results"), Thrown("Error executing web_search")}
      [] toolName = "execute_python" ->
            {Returned("4"), Thrown("Error executing execute_python")}
      [] OTHER -> {Returned("Error: Unknown tool")}

\* Variant: a name that is no tool is thrown at the dispatch.
executeToolStrict(toolName) ==
    CASE toolName = "web_search" ->
            {Returned("search results"), Returned("Error executing web_search")}
      [] toolName = "execute_python" ->
            {Returned("4"), Returned("Error executing execute_python")}
      [] OTHER -> {Thrown("Error: Unknown tool")}

\* What awaiting executeTool may give for a tool name: it catches
\* everything, so a failure is a text like any other result, and a name
\* that is no tool gives a text too.
executeTool(toolName) ==
    CASE toolName = "web_search" ->
            {Returned("search results"), Returned("Error executing web_search")}
      [] toolName = "execute_python" ->
            {Returned("4"), Returned("Error executing execute_python")}
      [] OTHER -> {Returned("Error: Unknown tool")}

\* JSON.stringify of a text without characters to escape
Stringify(text) == "\"" \o text \o "\""

Init ==
    /\ activeTasks = {}
    /\ task = <<>>
    /\ run = <<>>
    /\ sink = <<>>
    /\ db = <<>>
    /\ trace = <<>>
    /\ reply = Reply("none", 0, "", Null)

\* Variant: the catch handler closes the subscribers without telling them.
FatalNoNotify(t, tk, sk, rn, tr, msg) ==
    LET c == closeSubscribers(sk, tk.subscribers)
    IN /\ task' = [task EXCEPT ![t] =
                      [tk EXCEPT !.status = "error", !.error = msg,
                                 !.subscribers = c.subscribers]]
       /\ sink' = c.sink
       /\ run' = [run EXCEPT ![t] = [rn EXCEPT !.pc = "failed", !.keepAlive = FALSE]]
       /\ trace' = [trace EXCEPT ![t] = [tr EXCEPT !.status = Append(@, "error")]]
       /\ db' = db

\* Variant: the catch handler does not record the message on the task.
FatalNoMessage(t, tk, sk, rn, tr, msg) ==
    LET n == notifySubscribers(sk, tk.subscribers, ErrorEvent(msg))
        c == closeSubscribers(n.sink, n.subscribers)
    IN /\ task' = [task EXCEPT ![t] =
                      [tk EXCEPT !.status = "error", !.subscribers = c.subscribers]]
       /\ sink' = c.sink
       /\ run' = [run EXCEPT ![t] = [rn EXCEPT !.pc = "failed", !.keepAlive = FALSE]]
       /\ trace' = [trace EXCEPT ![t] = [tr EXCEPT !.status = Append(@, "error")]]
       /\ db' = db

\* The catch handler startTask attaches to processTask, after processTask's
\* finally cleared the keep-alive timer.  tk, sk, rn, tr are the task, the
\* sinks, the runner and the trace as the failing handler left them.
Fatal(t, tk, sk, rn, tr, msg) ==
    LET n == notifySubscribers(sk, tk.subscribers, ErrorEvent(msg))
        c == closeSubscribers(n.sink, n.subscribers)
    IN /\ task' = [task EXCEPT ![t] =
                      [tk EXCEPT !.status = "error", !.error = msg,
                                 !.subscribers = c.subscribers]]
       /\ sink' = c.sink
       /\ run' = [run EXCEPT ![t] = [rn EXCEPT !.pc = "failed", !.keepAlive = FALSE]]
       /\ trace' = [trace EXCEPT ![t] = [tr EXCEPT !.status = Append(@, "error")]]
       /\ db' = db

\* Variant: done is broadcast before the text is saved.
CompletionNotifyFirst(t, tk, sk, rn, tr, dbThrows) ==
    LET done == [tk EXCEPT !.status = "completed", !.completedAt = TRUE]
        tr2 == [tr EXCEPT !.status = Append(@, "completed"),
                          !.warned = rn.iteration >= MAX_ITERATIONS,
                          !.saves = IF done.fullResponse # ""
                                    THEN Append(@, done.fullResponse) ELSE @]
        n == notifySubscribers(sk, done.subscribers, DoneEvent)
    IN IF done.fullResponse # "" /\ dbThrows
       THEN Fatal(t, [done EXCEPT !.subscribers = n.subscribers], n.sink, rn, tr2,
                  "database error")
       ELSE LET c == closeSubscribers(n.sink, n.subscribers)
            IN /\ task' = [task EXCEPT ![t] = [done EXCEPT !.subscribers = c.subscribers]]
               /\ sink' = c.sink
               /\ db' = IF done.fullResponse # ""
                        THEN Append(db, [conversationId |-> done.conversationId,
                                         role |-> "assistant",
                                         content |-> done.fullResponse])
                        ELSE db
               /\ run' = [run EXCEPT ![t] =
                             [rn EXCEPT !.pc = "done", !.keepAlive = FALSE, !.cleanup = TRUE]]
               /\ trace' = [trace EXCEPT ![t] = tr2]

\* The end of processTask after the loop: warn at the ceiling, mark
\* completed, save, notify done, close, schedule the clean-up.
\* db.addMessage may throw: the call was made and nothing is stored.
Completion(t, tk, sk, rn, tr, dbThrows) ==
    LET done == [tk EXCEPT !.status = "completed", !.completedAt = TRUE]
        tr2 == [tr EXCEPT !.status = Append(@, "completed"),
                          !.warned = rn.iteration >= MAX_ITERATIONS,
                          !.saves = IF done.fullResponse # ""
                                    THEN Append(@, done.fullResponse) ELSE @]
    IN IF done.fullResponse # "" /\ dbThrows
       THEN Fatal(t, done, sk, rn, tr2, "database error")
       ELSE LET n == notifySubscribers(sk, done.subscribers, DoneEvent)
                c == closeSubscribers(n.sink, n.subscribers)
            IN /\ task' = [task EXCEPT ![t] = [done EXCEPT !.subscribers = c.subscribers]]
               /\ sink' = c.sink
               /\ db' = IF done.fullResponse # ""
                        THEN Append(db, [conversationId |-> done.conversationId,
                                         role |-> "assistant",
                                         content |-> done.fullResponse])
                        ELSE db
               /\ run' = [run EXCEPT ![t] =
                             [rn EXCEPT !.pc = "done", !.keepAlive = FALSE, !.cleanup = TRUE]]
               /\ trace' = [trace EXCEPT ![t] = tr2]

\* The head of the while loop: the next iteration issues its request and
\* awaits the engine; at the ceiling the loop ends.
LoopHead(t, tk, sk, rn, tr) ==
    IF rn.iteration < MAX_ITERATIONS
    THEN LET rn2 == [rn EXCEPT !.iteration = @ + 1]
         IN /\ run' = [run EXCEPT ![t] = [rn2 EXCEPT !.pc = "fetch"]]
            /\ trace' = [trace EXCEPT ![t] =
                            [tr EXCEPT !.calls = Append(@, requestBody(rn2))]]
            /\ task' = [task EXCEPT ![t] = tk]
            /\ sink' = sk
            /\ db' = db
    ELSE \E dbThrows \in BOOLEAN : Completion(t, tk, sk, rn, tr, dbThrows)

\* Variant: the id is the size of the map plus one, so the id of a removed
\* task is given out again.
startTaskBySize(conversationId, messages, useSearch, useCode) ==
    LET taskId == Cardinality(activeTasks) + 1
        rn == [pc |-> "fetch", iteration |-> 1, messages |-> messages,
               useSearch |-> useSearch, useCode |-> useCode,
               toolCalls |-> <<>>, fullText |-> "", chunkIndex |-> 0,
               keepAlive |-> TRUE, cleanup |-> FALSE]
    IN /\ task' = Append(task, [id |-> taskId, conversationId |-> conversationId,
                                status |-> "running", chunks |-> <<>>,
                                fullResponse |-> "", error |-> "",
                                completedAt |-> FALSE, subscribers |-> {}])
       /\ activeTasks' = activeTasks \cup {taskId}
       /\ run' = Append(run, rn)
       /\ trace' = Append(trace, [status |-> <<"running">>, calls |-> <<requestBody(rn)>>,
                                  reads |-> 0, texts |-> <<>>, tools |-> <<>>,
                                  beats |-> 0, saves |-> <<>>, warned |-> FALSE])
       /\ sink' = sink

\* startTask: a fresh id, the task in the map, processTask run up to its
\* first await (the keep-alive timer set, iteration 1, the request sent).
startTask(conversationId, messages, useSearch, useCode) ==
    LET taskId == Len(task) + 1
        rn == [pc |-> "fetch", iteration |-> 1, messages |-> messages,
               useSearch |-> useSearch, useCode |-> useCode,
               toolCalls |-> <<>>, fullText |-> "", chunkIndex |-> 0,
               keepAlive |-> TRUE, cleanup |-> FALSE]
    IN /\ task' = Append(task, [id |-> taskId, conversationId |-> conversationId,
                                status |-> "running", chunks |-> <<>>,
                                fullResponse |-> "", error |-> "",
                                completedAt |-> FALSE, subscribers |-> {}])
       /\ activeTasks' = activeTasks \cup {taskId}
       /\ run' = Append(run, rn)
       /\ trace' = Append(trace, [status |-> <<"running">>, calls |-> <<requestBody(rn)>>,
                                  reads |-> 0, texts |-> <<>>, tools |-> <<>>,
                                  beats |-> 0, saves |-> <<>>, warned |-> FALSE])
       /\ sink' = sink

\* startTask called on a history of one question, the database left alone.
StartTask(conversationId, useSearch, useCode) ==
    /\ startTask(conversationId, InitialMessages, useSearch, useCode)
    /\ db' = db
    /\ reply' = reply

\* db.getMessages: the messages of a conversation, oldest first.
getMessages(stored, conversationId) ==
    SelectSeq(stored, LAMBDA m : m.conversationId = conversationId)

\* history.slice(-n)
LastN(seq, n) == IF Len(seq) <= n THEN seq ELSE SubSeq(seq, Len(seq) - n + 1, Len(seq))

MAX_HISTORY == 10

\* body.field ?? default
OrElse(body, field, default) == IF field \in DOMAIN body THEN body[field] ELSE default

\* handleChat: the user message is saved, the history is the system prompt
\* and the last MAX_HISTORY messages of the conversation, and startTask is
\* called, whatever tasks the conversation has already.
handleChat(body) ==
    LET stored == Append(db, [conversationId |-> body.conversation_id,
                              role |-> "user", content |-> body.message])
        recentHistory == LastN(getMessages(stored, body.conversation_id), MAX_HISTORY)
        ollamaMessages ==
            <<[role |-> "system", content |-> "prompt"]>>
            \o [i \in 1..Len(recentHistory) |->
                   [role |-> recentHistory[i].role, content |-> recentHistory[i].content]]
    IN /\ body.conversation_id # "" /\ body.message # ""
       /\ db' = stored
       /\ reply' = reply
       /\ startTask(body.conversation_id, ollamaMessages,
                    OrElse(body, "useSearch", TRUE), OrElse(body, "useCode", FALSE))

\* The engine is unreachable, answers with a non-success status, or its
\* non-streaming body cannot be used: processTask throws.
FetchFail(t) ==
    /\ run[t].pc = "fetch"
    /\ Fatal(t, task[t], sink, run[t], trace[t], "Ollama error")
    /\ UNCHANGED <<activeTasks, reply, reply>>

\* The streaming request succeeded: streamFromOllama starts reading.
FetchStream(t) ==
    /\ run[t].pc = "fetch"
    /\ shouldStream(run[t])
    /\ run' = [run EXCEPT ![t] = [@ EXCEPT !.pc = "stream", !.fullText = "",
                                           !.chunkIndex = Len(task[t].chunks)]]
    /\ UNCHANGED <<activeTasks, reply, task, sink, db, trace>>

\* Variant: a token is stored only while somebody listens.
streamLineIfWatched(tk, sk, rn, line) ==
    IF line.kind = "json" /\ line.content # "" /\ tk.subscribers # {}
    THEN LET chunk == [content |-> line.content, index |-> rn.chunkIndex]
             n == notifySubscribers(sk, tk.subscribers,
                                    ChunkEvent(line.content, chunk.index))
         IN [task |-> [tk EXCEPT !.chunks = Append(@, chunk),
                                 !.subscribers = n.subscribers],
             sink |-> n.sink,
             run |-> [rn EXCEPT !.fullText = @ \o line.content,
                                !.chunkIndex = @ + 1]]
    ELSE [task |-> tk, sink |-> sk, run |-> rn]

\* Variant: ++chunkIndex instead of chunkIndex++.
streamLinePreIncrement(tk, sk, rn, line) ==
    IF line.kind = "json" /\ line.content # ""
    THEN LET chunk == [content |-> line.content, index |-> rn.chunkIndex + 1]
             n == notifySubscribers(sk, tk.subscribers,
                                    ChunkEvent(line.content, chunk.index))
         IN [task |-> [tk EXCEPT !.chunks = Append(@, chunk),
                                 !.subscribers = n.subscribers],
             sink |-> n.sink,
             run |-> [rn EXCEPT !.fullText = @ \o line.content,
                                !.chunkIndex = @ + 1]]
    ELSE [task |-> tk, sink |-> sk, run |-> rn]

\* Variant: every line that is not blank takes an index, a line that gives
\* no fragment too.
streamLineCountsAll(tk, sk, rn, line) ==
    IF line.kind = "json" /\ line.content # ""
    THEN LET chunk == [content |-> line.content, index |-> rn.chunkIndex]
             n == notifySubscribers(sk, tk.subscribers,
                                    ChunkEvent(line.content, chunk.index))
         IN [task |-> [tk EXCEPT !.chunks = Append(@, chunk),
                                 !.subscribers = n.subscribers],
             sink |-> n.sink,
             run |-> [rn EXCEPT !.fullText = @ \o line.content,
                                !.chunkIndex = @ + 1]]
    ELSE IF line.kind = "blank"
         THEN [task |-> tk, sink |-> sk, run |-> rn]
         ELSE [task |-> tk, sink |-> sk, run |-> [rn EXCEPT !.chunkIndex = @ + 1]]

\* One NDJSON line of streamFromOllama: the task, the sinks and the locals
\* after it.
streamLine(tk, sk, rn, line) ==
    IF line.kind = "json" /\ line.content # ""
    THEN LET chunk == [content |-> line.content, index |-> rn.chunkIndex]
             n == notifySubscribers(sk, tk.subscribers,
                                    ChunkEvent(line.content, chunk.index))
         IN [task |-> [tk EXCEPT !.chunks = Append(@, chunk),
                                 !.subscribers = n.subscribers],
             sink |-> n.sink,
             run |-> [rn EXCEPT !.fullText = @ \o line.content,
                                !.chunkIndex = @ + 1]]
    ELSE [task |-> tk, sink |-> sk, run |-> rn]

\* The trace after the engine delivered a line: the read is counted, and the
\* text of a line that carries one is kept.
Logged(tr, line) ==
    [tr EXCEPT !.reads = @ + 1,
               !.texts = IF line.kind = "json" /\ line.content # ""
                          THEN Append(@, line.content) ELSE @]

\* reader.read() delivers one complete line.
StreamRead(t, line) ==
    /\ run[t].pc = "stream"
    /\ LET r == streamLine(task[t], sink, run[t], line)
       IN /\ task' = [task EXCEPT ![t] = r.task]
          /\ sink' = r.sink
          /\ run' = [run EXCEPT ![t] = r.run]
    /\ trace' = [trace EXCEPT ![t] = Logged(@, line)]
    /\ UNCHANGED <<activeTasks, reply, db>>

\* Variant: the fragments of a stream that failed are thrown away.
StreamFailDiscard(t) ==
    /\ run[t].pc = "stream"
    /\ Fatal(t, [task[t] EXCEPT !.chunks = <<>>], sink, run[t], trace[t], "stream error")
    /\ UNCHANGED <<activeTasks, reply, reply>>

\* reader.read() throws in mid-stream.
StreamFail(t) ==
    /\ run[t].pc = "stream"
    /\ Fatal(t, task[t], sink, run[t], trace[t], "stream error")
    /\ UNCHANGED <<activeTasks, reply, reply>>

\* Variant: the streamed text is not added to fullResponse.
StreamEndNoAppend(t, rest, dbThrows) ==
    /\ run[t].pc = "stream"
    /\ LET r == streamLine(task[t], sink, run[t], rest)
           tr == Logged(trace[t], rest)
       IN Completion(t, r.task, r.sink, r.run, tr, dbThrows)
    /\ UNCHANGED <<activeTasks, reply, reply>>

\* reader.read() reports the end: the rest of the buffer is handled as a
\* last line, the text is added to fullResponse and the task completes.
StreamEnd(t, rest, dbThrows) ==
    /\ run[t].pc = "stream"
    /\ LET r == streamLine(task[t], sink, run[t], rest)
           tk == [r.task EXCEPT !.fullResponse = @ \o r.run.fullText]
           tr == Logged(trace[t], rest)
       IN Completion(t, tk, r.sink, r.run, tr, dbThrows)
    /\ UNCHANGED <<activeTasks, reply, reply>>

\* The non-streaming response asks for tools: the message goes to the
\* history, the first notice is sent and the first tool is awaited.
FetchToolCalls(t, calls) ==
    /\ run[t].pc = "fetch"
    /\ ~shouldStream(run[t])
    /\ LET n == notifySubscribers(sink, task[t].subscribers, ToolNotice(Head(calls)))
       IN /\ task' = [task EXCEPT ![t].subscribers = n.subscribers]
          /\ sink' = n.sink
    /\ run' = [run EXCEPT ![t] =
                  [@ EXCEPT !.pc = "tool", !.toolCalls = calls,
                            !.messages = Append(@, [role |-> "assistant",
                                                    tool_calls |-> calls])]]
    /\ trace' = [trace EXCEPT ![t].tools = Append(@, Head(calls))]
    /\ UNCHANGED <<activeTasks, reply, db>>

\* Variant: the result is put right behind the engine's tool-request
\* message, before the results that are there already.
ToolReturnNewestFirst(t, result) ==
    /\ run[t].pc = "tool"
    /\ result \in executeTool(Head(run[t].toolCalls))
    /\ IF result.throws
       THEN Fatal(t, task[t], sink, run[t], trace[t], result.text)
       ELSE LET remaining == Tail(run[t].toolCalls)
                done == Len(trace[t].tools) - 1
                old == run[t].messages
                rn == [run[t] EXCEPT
                          !.toolCalls = remaining,
                          !.messages =
                              SubSeq(old, 1, Len(old) - done)
                              \o <<[role |-> "tool", content |-> Stringify(result.text)]>>
                              \o SubSeq(old, Len(old) - done + 1, Len(old))]
            IN IF remaining # <<>>
               THEN LET n == notifySubscribers(sink, task[t].subscribers,
                                               ToolNotice(Head(remaining)))
                    IN /\ task' = [task EXCEPT ![t].subscribers = n.subscribers]
                       /\ sink' = n.sink
                       /\ run' = [run EXCEPT ![t] = rn]
                       /\ trace' = [trace EXCEPT ![t].tools = Append(@, Head(remaining))]
                       /\ db' = db
               ELSE LoopHead(t, task[t], sink, rn, trace[t])
    /\ UNCHANGED <<activeTasks, reply, reply>>

\* The await of executeTool ends.  A returned text goes to the history,
\* JSON-encoded; the next tool is announced and awaited, or the loop goes to
\* its next iteration.  An exception is not caught by processTask.
ToolReturn(t, result) ==
    /\ run[t].pc = "tool"
    /\ result \in executeTool(Head(run[t].toolCalls))
    /\ IF result.throws
       THEN Fatal(t, task[t], sink, run[t], trace[t], result.text)
       ELSE LET remaining == Tail(run[t].toolCalls)
                rn == [run[t] EXCEPT
                          !.toolCalls = remaining,
                          !.messages = Append(@, [role |-> "tool",
                                                  content |-> Stringify(result.text)])]
            IN IF remaining # <<>>
               THEN LET n == notifySubscribers(sink, task[t].subscribers,
                                               ToolNotice(Head(remaining)))
                    IN /\ task' = [task EXCEPT ![t].subscribers = n.subscribers]
                       /\ sink' = n.sink
                       /\ run' = [run EXCEPT ![t] = rn]
                       /\ trace' = [trace EXCEPT ![t].tools = Append(@, Head(remaining))]
                       /\ db' = db
               ELSE LoopHead(t, task[t], sink, rn, trace[t])
    /\ UNCHANGED <<activeTasks, reply, reply>>

\* Variant: the text is broadcast like a notice and not stored as a chunk.
FetchFinalNoStore(t, content, dbThrows) ==
    /\ run[t].pc = "fetch"
    /\ ~shouldStream(run[t])
    /\ LET n == notifySubscribers(sink, task[t].subscribers, ChunkEvent(content, -1))
           tk == [task[t] EXCEPT !.fullResponse = @ \o content,
                                 !.subscribers = n.subscribers]
           tr == [trace[t] EXCEPT !.texts = Append(@, content)]
       IN Completion(t, tk, n.sink, run[t], tr, dbThrows)
    /\ UNCHANGED <<activeTasks, reply, reply>>

\* The non-streaming response carries no tool call: its text is the answer,
\* one chunk, and the task completes.
FetchFinal(t, content, dbThrows) ==
    /\ run[t].pc = "fetch"
    /\ ~shouldStream(run[t])
    /\ LET chunk == [content |-> content, index |-> Len(task[t].chunks)]
           n == notifySubscribers(sink, task[t].subscribers,
                                  ChunkEvent(content, chunk.index))
           tk == [task[t] EXCEPT !.fullResponse = @ \o content,
                                 !.chunks = Append(@, chunk),
                                 !.subscribers = n.subscribers]
           tr == [trace[t] EXCEPT !.texts = Append(@, content)]
       IN Completion(t, tk, n.sink, run[t], tr, dbThrows)
    /\ UNCHANGED <<activeTasks, reply, reply>>

\* Variant: the interval is never cleared, the timer fires as long as the
\* process lives.
HeartbeatUncleared(t) ==
    /\ sink' = EnqueueAll(sink, task[t].subscribers, KeepAlive)
    /\ trace' = [trace EXCEPT ![t].beats = @ + 1]
    /\ UNCHANGED <<activeTasks, reply, task, run, db>>

\* The keep-alive timer fires: a failing enqueue is ignored.
Heartbeat(t) ==
    /\ run[t].keepAlive
    /\ sink' = EnqueueAll(sink, task[t].subscribers, KeepAlive)
    /\ trace' = [trace EXCEPT ![t].beats = @ + 1]
    /\ UNCHANGED <<activeTasks, reply, task, run, db>>

\* Variant: the clean-up timer is set when the task is created.
CleanupEarly(t) ==
    /\ t \in activeTasks
    /\ activeTasks' = activeTasks \ {t}
    /\ run' = [run EXCEPT ![t].cleanup = FALSE]
    /\ UNCHANGED <<task, sink, db, trace, reply>>

\* The clean-up timer set at completion fires.
Cleanup(t) ==
    /\ run[t].cleanup
    /\ activeTasks' = activeTasks \ {t}
    /\ run' = [run EXCEPT ![t].cleanup = FALSE]
    /\ UNCHANGED <<task, sink, db, trace, reply>>

\* ------------------------------------------------------------- subscribers
\* Variant: c.index > fromChunkIndex.
missedChunksAfter(chunks, fromChunkIndex) ==
    SelectSeq(chunks, LAMBDA c : c.index > fromChunkIndex)

missedChunks(chunks, fromChunkIndex) ==
    SelectSeq(chunks, LAMBDA c : c.index >= fromChunkIndex)

RECURSIVE ChunkEvents(_)
ChunkEvents(chunks) ==
    IF chunks = <<>> THEN <<>>
    ELSE <<ChunkEvent(Head(chunks).content, Head(chunks).index)>>
         \o ChunkEvents(Tail(chunks))

\* Variant: start() registers the controller whatever the status is; the
\* returns after close() are missing.
SubscribeAlways(t, fromChunkIndex) ==
    /\ t \in activeTasks
    /\ LET replay == ChunkEvents(missedChunks(task[t].chunks, fromChunkIndex))
           new == [task |-> t, fromIndex |-> fromChunkIndex, queue |-> replay,
                   stored |-> Len(task[t].chunks), replayed |-> Len(replay),
                   noticed |-> Len(trace[t].tools),
                   live |-> TRUE, closed |-> FALSE, cancelled |-> FALSE]
       IN /\ sink' = Append(sink,
                       CASE task[t].status = "completed" ->
                              [new EXCEPT !.queue = Append(@, DoneEvent), !.closed = TRUE]
                         [] task[t].status = "error" ->
                              [new EXCEPT !.queue = Append(@, ErrorEvent(task[t].error)),
                                          !.closed = TRUE]
                         [] OTHER -> new)
          /\ task' = [task EXCEPT ![t].subscribers = @ \cup {Len(sink) + 1}]
    /\ UNCHANGED <<activeTasks, reply, run, db, trace>>

\* The `undefined` that cancel() hands to Set.delete: no sink has this id.
Undefined == 0

\* subscribe on a task of the map: the stream's start() replays, then sends
\* the terminal event and closes, or registers the controller.
Subscribe(t, fromChunkIndex) ==
    /\ t \in activeTasks
    /\ LET replay == ChunkEvents(missedChunks(task[t].chunks, fromChunkIndex))
           sinkId == Len(sink) + 1
           new == [task |-> t, fromIndex |-> fromChunkIndex, queue |-> replay,
                   stored |-> Len(task[t].chunks), replayed |-> Len(replay),
                   noticed |-> Len(trace[t].tools),
                   live |-> FALSE, closed |-> FALSE, cancelled |-> FALSE]
       IN CASE task[t].status = "completed" ->
                 /\ sink' = Append(sink, [new EXCEPT !.queue = Append(@, DoneEvent),
                                                     !.closed = TRUE])
                 /\ task' = task
            [] task[t].status = "error" ->
                 /\ sink' = Append(sink,
                                   [new EXCEPT !.queue = Append(@, ErrorEvent(task[t].error)),
                                               !.closed = TRUE])
                 /\ task' = task
            [] OTHER ->
                 /\ sink' = Append(sink, [new EXCEPT !.live = TRUE])
                 /\ task' = [task EXCEPT ![t].subscribers = @ \cup {sinkId}]
    /\ UNCHANGED <<activeTasks, reply, run, db, trace>>

\* A sink keeps, beside the controller's state, what start() did and found:
\* the number of chunks the task held (stored), the number it replayed
\* (replayed), whether it registered the controller (live), and the number
\* of tool notices the runner had sent before (noticed).
\*
\* The consumer cancels its stream.  cancel() of the underlying source runs
\* only when the stream is still readable, and deletes `undefined` from the
\* subscriber set.
Cancel(s) ==
    /\ s \in SinkIds
    /\ sink' = [sink EXCEPT ![s].cancelled = @ \/ ~sink[s].closed]
    /\ task' = [task EXCEPT ![sink[s].task].subscribers = @ \ {Undefined}]
    /\ UNCHANGED <<activeTasks, reply, run, db, trace>>

\* ---------------------------------------------------------------- lookups
\* subscribe on an id that is not in the map returns null before it builds
\* a stream.
SubscribeUnknown(taskId, fromChunkIndex) ==
    /\ taskId \notin activeTasks
    /\ reply' = Reply("subscribe", taskId, "", Null)
    /\ UNCHANGED <<activeTasks, task, run, sink, db, trace>>

\* Variant: the map is not consulted, any task ever created is found.
getTaskStatusOfAny(taskId) ==
    IF taskId \in DOMAIN task
    THEN [kind |-> "status",
          task |-> [f \in DOMAIN task[taskId] \ {"subscribers"} |-> task[taskId][f]]]
    ELSE Null

\* getTaskStatus: the task without its subscribers, or null.
getTaskStatus(taskId) ==
    IF taskId \in activeTasks
    THEN [kind |-> "status",
          task |-> [f \in DOMAIN task[taskId] \ {"subscribers"} |-> task[taskId][f]]]
    ELSE Null

GetTaskStatus(taskId) ==
    /\ reply' = Reply("getTaskStatus", taskId, "", getTaskStatus(taskId))
    /\ UNCHANGED <<activeTasks, task, run, sink, db, trace>>

\* Variant: the status is not tested, the first task of the conversation is
\* returned.
getAnyTaskForConversation(conversationId) ==
    LET found == {t \in activeTasks : task[t].conversationId = conversationId}
    IN IF found = {} THEN Null
       ELSE [kind |-> "taskId", id |-> CHOOSE t \in found : \A u \in found : t <= u]

\* getActiveTaskForConversation: the map is walked in insertion order, which
\* is the order of the ids; the first running task of the conversation is
\* returned, or null.
getActiveTaskForConversation(conversationId) ==
    LET found == {t \in activeTasks : /\ task[t].conversationId = conversationId
                                      /\ task[t].status = "running"}
    IN IF found = {} THEN Null
       ELSE [kind |-> "taskId", id |-> CHOOSE t \in found : \A u \in found : t <= u]

GetActiveTaskForConversation(conversationId) ==
    /\ reply' = Reply("getActiveTaskForConversation", 0, conversationId,
                      getActiveTaskForConversation(conversationId))
    /\ UNCHANGED <<activeTasks, task, run, sink, db, trace>>

\* ----------------------------------------------------------- specification
\* The tool calls of an engine response in the specifications below.
CodeCalls == SeqsUpTo({"execute_python"}, MaxTools) \ {<<>>}

\* The outcomes offered to the await of a tool; ToolReturn takes those that
\* executeTool gives for the tool it awaits.
ResultTexts ==
    {"search results", "4", "Error executing web_search",
     "Error executing execute_python", "Error: Unknown tool"}
Outcomes == {Returned(x) : x \in ResultTexts} \cup {Thrown(x) : x \in ResultTexts}

\* The engine, the tools, the database and the clean-up timer answer a runner.
Engine ==
    \/ \E t \in TaskIds : FetchFail(t)
    \/ \E t \in TaskIds : FetchStream(t)
    \/ \E t \in TaskIds, line \in Lines : trace[t].reads < MaxLines /\ StreamRead(t, line)
    \/ \E t \in TaskIds : StreamFail(t)
    \/ \E t \in TaskIds, rest \in Lines, dbThrows \in BOOLEAN : StreamEnd(t, rest, dbThrows)
    \/ \E t \in TaskIds, calls \in CodeCalls : FetchToolCalls(t, calls)
    \/ \E t \in TaskIds, result \in Outcomes : ToolReturn(t, result)
    \/ \E t \in TaskIds, content \in Tokens \cup {""}, dbThrows \in BOOLEAN :
          FetchFinal(t, content, dbThrows)
    \/ \E t \in TaskIds : Cleanup(t)

\* One chat request, with any tool flags, and the streams opened on its task.
Next ==
    \/ /\ Len(task) < 1
       /\ \E useSearch \in BOOLEAN, useCode \in BOOLEAN :
             StartTask("c1", useSearch, useCode)
    \/ Engine
    \/ \E t \in TaskIds, k \in 0..MaxFrom : Len(sink) < MaxSinks /\ Subscribe(t, k)
    \/ \E s \in SinkIds : Cancel(s)

Spec == Init /\ [][Next]_vars

\* The same system when every engine call, engine stream and tool call
\* eventually returns or fails and a timer that was set eventually fires:
\* a step of Engine that stays possible is eventually taken.  The consumers
\* are free to subscribe and cancel or not.
SpecLive == Init /\ [][Next]_vars /\ WF_vars(Engine)

\* The tool names an engine response may carry: the two tools of tools.ts
\* and a name that is no tool.
ToolNames == {"web_search", "execute_python", "get_weather"}
ToolCalls == SeqsUpTo(ToolNames, MaxTools) \ {<<>>}

\* One chat request, with any tool flags, whose engine may ask for any list
\* of tool names, and at most one stream, opened from the first fragment.
NextTools ==
    \/ /\ Len(task) < 1
       /\ \E useSearch \in BOOLEAN, useCode \in BOOLEAN :
             StartTask("c1", useSearch, useCode)
    \/ \E t \in TaskIds : FetchFail(t)
    \/ \E t \in TaskIds : FetchStream(t)
    \/ \E t \in TaskIds, line \in Lines : trace[t].reads < MaxLines /\ StreamRead(t, line)
    \/ \E t \in TaskIds : StreamFail(t)
    \/ \E t \in TaskIds, rest \in Lines, dbThrows \in BOOLEAN : StreamEnd(t, rest, dbThrows)
    \/ \E t \in TaskIds, calls \in ToolCalls : FetchToolCalls(t, calls)
    \/ \E t \in TaskIds, result \in Outcomes : ToolReturn(t, result)
    \/ \E t \in TaskIds, content \in Tokens \cup {""}, dbThrows \in BOOLEAN :
          FetchFinal(t, content, dbThrows)
    \/ \E t \in TaskIds : Cleanup(t)
    \/ \E t \in TaskIds : Len(sink) < 1 /\ Subscribe(t, 0)
    \/ \E s \in SinkIds : Cancel(s)

SpecTools == Init /\ [][NextTools]_vars

\* The conversations and the request bodies of the chat endpoint in the
\* specification below: a body may leave the tool flags out.
ConversationIds == {"c1", "c2"}
Bodies ==
    {[conversation_id |-> c, message |-> "question"] : c \in ConversationIds}
    \cup {[conversation_id |-> c, message |-> "question", useCode |-> TRUE] :
             c \in ConversationIds}

\* Up to MaxTasks chat requests, for any conversations and at any time, and
\* the runners of their tasks.
NextChat ==
    \/ \E body \in Bodies : Len(task) < MaxTasks /\ handleChat(body)
    \/ Engine

SpecChat == Init /\ [][NextChat]_vars

\* Up to MaxTasks tasks without tools, for any conversations, whose engine
\* fails or streams one line, at most one stream, and the lookups, by
\* conversation and by id: the ids of the tasks and one more, never given out.
NextLookup ==
    \/ \E c \in ConversationIds : Len(task) < MaxTasks /\ StartTask(c, FALSE, FALSE)
    \/ \E t \in TaskIds : FetchFail(t)
    \/ \E t \in TaskIds : FetchStream(t)
    \/ \E t \in TaskIds, rest \in Lines, dbThrows \in BOOLEAN : StreamEnd(t, rest, dbThrows)
    \/ \E t \in TaskIds : Cleanup(t)
    \/ \E t \in TaskIds : Len(sink) < 1 /\ Subscribe(t, 0)
    \/ \E taskId \in 1..(MaxTasks + 1) : SubscribeUnknown(taskId, 0)
    \/ \E taskId \in 1..(MaxTasks + 1) : GetTaskStatus(taskId)
    \/ \E c \in ConversationIds : GetActiveTaskForConversation(c)

SpecLookup == Init /\ [][NextLookup]_vars

\* Up to MaxTasks tasks without tools, for any conversations and started at
\* any time, whose engine fails or streams, their keep-alive timers, and up
\* to MaxSinks streams opened on any of them from the first fragment.
NextMany ==
    \/ \E c \in ConversationIds : Len(task) < MaxTasks /\ StartTask(c, FALSE, FALSE)
    \/ \E t \in TaskIds : FetchFail(t)
    \/ \E t \in TaskIds : FetchStream(t)
    \/ \E t \in TaskIds, line \in Lines : trace[t].reads < MaxLines /\ StreamRead(t, line)
    \/ \E t \in TaskIds : StreamFail(t)
    \/ \E t \in TaskIds, rest \in Lines, dbThrows \in BOOLEAN : StreamEnd(t, rest, dbThrows)
    \/ \E t \in TaskIds : Cleanup(t)
    \/ \E t \in TaskIds : Len(sink) < MaxSinks /\ Subscribe(t, 0)
    \/ \E t \in TaskIds : trace[t].beats < MaxBeats /\ Heartbeat(t)

SpecMany == Init /\ [][NextMany]_vars

\* One chat request without web search, the streams opened on its task from
\* the first fragment, and the keep-alive timer.
NextBeat ==
    \/ /\ Len(task) < 1
       /\ \E useCode \in BOOLEAN : StartTask("c1", FALSE, useCode)
    \/ Engine
    \/ \E t \in TaskIds : Len(sink) < MaxSinks /\ Subscribe(t, 0)
    \/ \E s \in SinkIds : Cancel(s)
    \/ \E t \in TaskIds : trace[t].beats < MaxBeats /\ Heartbeat(t)

SpecBeat == Init /\ [][NextBeat]_vars

\* ------------------------------------------------------------------ claims
RECURSIVE Join(_)
Join(texts) == IF texts = <<>> THEN "" ELSE Head(texts) \o Join(Tail(texts))

Contents(chunks) == [i \in 1..Len(chunks) |-> chunks[i].content]

\* The chunk events of a queue, in the order they were enqueued.
Chunks(queue) == SelectSeq(queue, IsChunk)

Terminals(queue) == {i \in 1..Len(queue) : IsTerminal(queue[i])}

\* The fragments a task holds after the engine produced these texts.
Fragments(texts) == [i \in 1..Len(texts) |-> [content |-> texts[i], index |-> i - 1]]

TaskOf(s) == task[sink[s].task]

\* C1 (as stated, for a subscriber that asks for no more than the task
\* holds when it subscribes): a subscriber registered on a running task and
\* attached until the task ended has received, as chunk events, exactly the
\* stored fragments with index >= its fromIndex, once each, in index order,
\* and no chunk event whose index is not the index of a stored fragment.
C1_Original ==
    \A s \in SinkIds :
        (/\ sink[s].live /\ ~sink[s].cancelled
         /\ sink[s].fromIndex <= sink[s].stored
         /\ TaskOf(s).status # "running")
        => Chunks(sink[s].queue)
           = ChunkEvents(missedChunks(TaskOf(s).chunks, sink[s].fromIndex))

\* C2: what start() replays to subscribe(taskId, k) on a task holding n
\* fragments is fragments k..n-1, by position and with index equal to
\* position, and nothing when k >= n.
C2_Replay ==
    \A s \in SinkIds :
        LET k == sink[s].fromIndex
            n == sink[s].stored
        IN /\ sink[s].replayed = IF k >= n THEN 0 ELSE n - k
           /\ sink[s].replayed <= Len(sink[s].queue)
           /\ \A i \in 1..sink[s].replayed :
                 sink[s].queue[i] = ChunkEvent(TaskOf(s).chunks[k + i].content, k + i - 1)

C2_Witness ==
    \E s \in SinkIds :
        sink[s].fromIndex = 1 /\ sink[s].stored = 2 /\ sink[s].replayed = 1

\* C3 (as stated): fullResponse is the concatenation, in index order, of the
\* content of the stored chunks, in every reachable state.
C3_Original ==
    \A t \in TaskIds : task[t].fullResponse = Join(Contents(task[t].chunks))

\* C4: a stream holds at most one terminal event, nothing that is a chunk
\* follows it, and a stream that was not cancelled holds exactly one, at its
\* end and with the channel closed, once its task is completed or in error.
C4_OneTerminal ==
    \A s \in SinkIds :
        LET q == sink[s].queue
        IN /\ Cardinality(Terminals(q)) <= 1
           /\ \A i \in Terminals(q) : \A j \in (i + 1)..Len(q) : ~IsChunk(q[j])
           /\ (TaskOf(s).status # "running" /\ ~sink[s].cancelled)
              => /\ Terminals(q) = {Len(q)}
                 /\ sink[s].closed

C4_Witness ==
    \E s1 \in SinkIds, s2 \in SinkIds :
        /\ sink[s1].live /\ ~sink[s1].cancelled
        /\ TaskOf(s1).status = "completed"
        /\ Len(sink[s1].queue) >= 2
        /\ sink[s2].task = sink[s1].task /\ ~sink[s2].live

\* C5 (as stated): the status of a task is written at most once after its
\* creation, running -> completed or running -> error.
C5_Original ==
    \A t \in TaskIds :
        trace[t].status \in {<<"running">>, <<"running", "completed">>,
                             <<"running", "error">>}

\* C6: whatever the subscribers did (none, attached, cancelled), the chunks
\* of a task are the fragments of the texts the engine produced so far, a
\* task whose runner ended normally is completed with the concatenation of
\* its streamed texts persisted once (unless empty), and a task whose runner
\* failed is in error with nothing persisted.
C6_Outcome ==
    \A t \in TaskIds :
        /\ task[t].chunks = Fragments(trace[t].texts)
        /\ run[t].pc \notin {"done", "failed"}
           => task[t].status = "running" /\ db = <<>>
        /\ run[t].pc = "done"
           => /\ task[t].status = "completed"
              /\ task[t].fullResponse = Join(trace[t].texts)
              /\ db = IF Join(trace[t].texts) = "" THEN <<>>
                      ELSE <<[conversationId |-> task[t].conversationId,
                              role |-> "assistant",
                              content |-> Join(trace[t].texts)]>>
        /\ run[t].pc = "failed"
           => task[t].status = "error" /\ db = <<>>

C6_Witness ==
    \E s \in SinkIds :
        /\ sink[s].cancelled
        /\ run[sink[s].task].pc = "done"
        /\ Len(sink[s].queue) = 1
        /\ Len(TaskOf(s).chunks) = 2
        /\ Len(db) = 1

\* C7 (as stated): a cancelled sink is no member of its task's subscriber set.
C7_Original ==
    \A s \in SinkIds : sink[s].cancelled => s \notin TaskOf(s).subscribers

\* A push of the runner of task t: a fragment, a tool notice, a terminal
\* event, a keep-alive.
FragmentPush(t) == Len(task'[t].chunks) = Len(task[t].chunks) + 1
NoticePush(t) == Len(trace'[t].tools) = Len(trace[t].tools) + 1
TerminalPush(t) == task[t].status = "running" /\ task'[t].status # "running"
KeepAlivePush(t) == trace'[t].beats = trace[t].beats + 1

Closed(t) == {s \in task[t].subscribers : ~CanEnqueue(sink[s])}
Open(t) == task[t].subscribers \ Closed(t)

\* C8 (as stated, for the keep-alive): a keep-alive pushed to a closed sink
\* removes that sink from the subscriber set.
C8_Original ==
    [][\A t \in TaskIds :
          t \in DOMAIN task' /\ KeepAlivePush(t)
          => Closed(t) \cap task'[t].subscribers = {}]_vars

\* C8 (amended): a fragment, notice or terminal broadcast removes every
\* closed sink from the subscriber set and reaches every open one; a
\* keep-alive reaches every open sink and leaves the set as it is, closed
\* sinks included; a fragment or notice broadcast alone and a keep-alive
\* leave the status as it is.
C8_Amended ==
    [][\A t \in TaskIds :
          /\ (FragmentPush(t) \/ NoticePush(t) \/ TerminalPush(t))
             => /\ Closed(t) \cap task'[t].subscribers = {}
                /\ \A s \in Open(t) :
                      /\ Len(sink'[s].queue) > Len(sink[s].queue)
                      /\ sink'[s].queue[Len(sink[s].queue) + 1].type =
                            IF FragmentPush(t) \/ NoticePush(t) THEN "chunk"
                            ELSE IF task'[t].status = "completed" THEN "done"
                            ELSE "error"
          /\ ((FragmentPush(t) \/ NoticePush(t)) /\ ~TerminalPush(t))
             => /\ Open(t) \subseteq task'[t].subscribers
                /\ task'[t].status = task[t].status
          /\ KeepAlivePush(t)
             => /\ task'[t] = task[t]
                /\ \A s \in Open(t) : sink'[s].queue = Append(sink[s].queue, KeepAlive)
                /\ \A s \in Closed(t) : sink'[s] = sink[s]]_vars

C8_Witness ==
    \E s1 \in SinkIds, s2 \in SinkIds :
        /\ sink[s1].cancelled /\ sink[s1].live
        /\ s1 \notin TaskOf(s1).subscribers
        /\ TaskOf(s1).status = "running"
        /\ sink[s2].task = sink[s1].task
        /\ s2 \in TaskOf(s2).subscribers
        /\ \E i \in 1..Len(sink[s2].queue) : sink[s2].queue[i] = KeepAlive
        /\ \E i \in 1..Len(sink[s2].queue) :
              IsChunk(sink[s2].queue[i]) /\ sink[s2].queue[i].index = 0
        /\ ~\E i \in 1..Len(sink[s1].queue) : sink[s1].queue[i] = KeepAlive

\* C9 (as stated): the indices of the chunk events of a stream are
\* consecutive integers in increasing order.
C9_Original ==
    \A s \in SinkIds :
        LET c == Chunks(sink[s].queue)
        IN \A i \in 1..(Len(c) - 1) : c[i + 1].index = c[i].index + 1

\* C10: the i-th stored chunk, counting from 0, has index i.
C10_Indices ==
    \A t \in TaskIds :
        \A i \in 1..Len(task[t].chunks) : task[t].chunks[i].index = i - 1

C10_Witness ==
    \E t \in TaskIds : Len(task[t].chunks) = 2 /\ task[t].status = "completed"

\* C11 (as stated): db.addMessage is called at most once for a task, with
\* the task's fullResponse, never with an empty text and never for a task
\* that ends in error.
C11_Original ==
    \A t \in TaskIds :
        /\ Len(trace[t].saves) <= 1
        /\ \A i \in 1..Len(trace[t].saves) :
              trace[t].saves[i] = task[t].fullResponse /\ trace[t].saves[i] # ""
        /\ task[t].status = "error" => trace[t].saves = <<>>

\* C12: when the engine, the tools and the timers always answer, every task
\* leaves running (completed or error), and every controller that was
\* registered on a running task is eventually out of the subscriber set, with
\* one terminal event at the end of its stream and the channel closed unless
\* its consumer cancelled the stream before.
C12_Terminates ==
    /\ \A t \in 1..MaxTasks :
          (t \in TaskIds) ~> (t \in TaskIds /\ task[t].status \in {"completed", "error"})
    /\ \A s \in 1..MaxSinks :
          (s \in SinkIds /\ sink[s].live)
          ~> (/\ s \in SinkIds
              /\ s \notin TaskOf(s).subscribers
              /\ \/ sink[s].cancelled
                 \/ /\ sink[s].closed
                    /\ Terminals(sink[s].queue) = {Len(sink[s].queue)})

C12_Witness ==
    \E s1 \in SinkIds, s2 \in SinkIds :
        /\ sink[s1].live /\ sink[s1].closed
        /\ sink[s1].queue[Len(sink[s1].queue)] = ErrorEvent("stream error")
        /\ sink[s2].live /\ sink[s2].cancelled
        /\ TaskOf(s1).subscribers = {}
        /\ TaskOf(s1).status = "error"

\* C13: a task started with both tools off makes one engine call, with
\* stream = true and no tools offered, in its only iteration; it is running
\* exactly while it awaits that call or reads its stream, and terminal once
\* the stream ended or failed.
C13_NoTools ==
    \A t \in TaskIds :
        ~(run[t].useSearch \/ run[t].useCode)
        => /\ Len(trace[t].calls) = 1
           /\ trace[t].calls[1].stream
           /\ trace[t].calls[1].tools = <<>>
           /\ run[t].iteration = 1
           /\ trace[t].tools = <<>>
           /\ run[t].pc \in {"fetch", "stream", "done", "failed"}
           /\ task[t].status = "running" <=> run[t].pc \in {"fetch", "stream"}

C13_Witness ==
    \E t \in TaskIds :
        /\ ~(run[t].useSearch \/ run[t].useCode)
        /\ run[t].pc = "done"
        /\ Len(task[t].chunks) = 2
        /\ task[t].status = "completed"

\* The messages startTask was given, the tool calls the first response
\* asked for, and the number of tool results in the history so far.
Given(t) == trace[t].calls[1].messages
AskedTools(t) == Len(run[t].messages) > Len(Given(t))
Requested(t) == run[t].messages[Len(Given(t)) + 1].tool_calls
Results(t) == Len(run[t].messages) - Len(Given(t)) - 1

\* C14: a task with a tool enabled whose first response asks for m >= 1
\* tools makes one call with stream = false, then runs the m tools in the
\* order of the request, one at a time, then makes one call with
\* stream = true and no tools, and is terminal when that stream ended or
\* failed; it makes no third call.
C14_ToolRound ==
    \A t \in TaskIds :
        AskedTools(t)
        => LET m == Len(Requested(t))
               calls == trace[t].calls
           IN /\ run[t].useSearch \/ run[t].useCode
              /\ m >= 1
              /\ ~calls[1].stream
              /\ trace[t].tools = SubSeq(Requested(t), 1, Len(trace[t].tools))
              /\ Len(trace[t].tools) = IF Results(t) < m THEN Results(t) + 1 ELSE m
              /\ \A i \in 1..Results(t) :
                    run[t].messages[Len(Given(t)) + 1 + i].role = "tool"
              /\ Results(t) < m
                 => /\ Len(calls) = 1
                    /\ run[t].pc = "tool"
                    /\ run[t].iteration = 1
              /\ Results(t) >= m
                 => /\ Results(t) = m
                    /\ Len(calls) = 2
                    /\ calls[2].stream
                    /\ calls[2].tools = <<>>
                    /\ calls[2].messages = run[t].messages
                    /\ run[t].iteration = 2
                    /\ run[t].pc \in {"fetch", "stream", "done", "failed"}
              /\ task[t].status = "running" <=> run[t].pc \in {"tool", "fetch", "stream"}

C14_Witness ==
    \E t \in TaskIds :
        /\ AskedTools(t)
        /\ Requested(t) = <<"web_search", "execute_python">>
        /\ trace[t].tools = Requested(t)
        /\ Len(trace[t].calls) = 2
        /\ run[t].pc = "done"
        /\ task[t].fullResponse # ""

\* C15 (as stated): a task whose engine responses keep asking for tools and
\* give no answer text goes on to the ceiling: when it is completed without
\* an answer, its iteration counter is MAX_ITERATIONS and the warning was
\* logged.
C15_Original ==
    \A t \in TaskIds :
        (AskedTools(t) /\ run[t].pc = "done" /\ task[t].fullResponse = "")
        => run[t].iteration = MAX_ITERATIONS /\ trace[t].warned

\* C15 (amended): the ceiling is never reached.  The iteration counter never
\* exceeds 2, iteration 2 exists only after a tool round and always streams,
\* the warning is never logged, and a runner that ended without a failure
\* left its task completed.
C15_Amended ==
    \A t \in TaskIds :
        /\ run[t].iteration \in 1..2
        /\ run[t].iteration < MAX_ITERATIONS
        /\ ~trace[t].warned
        /\ run[t].iteration = 2
           => /\ AskedTools(t)
              /\ shouldStream(run[t])
              /\ run[t].pc \in {"fetch", "stream", "done", "failed"}
        /\ run[t].pc = "done" => task[t].status = "completed"

C15_Witness ==
    \E t \in TaskIds :
        /\ AskedTools(t)
        /\ run[t].pc = "done"
        /\ run[t].iteration = 2
        /\ task[t].fullResponse = ""
        /\ trace[t].reads = MaxLines
        /\ task[t].status = "completed"

\* The await of an engine call of task t ends in a throw.
EngineFails(t) ==
    /\ run[t].pc = "fetch"
    /\ run'[t].pc = "failed"
    /\ trace'[t].status = Append(trace[t].status, "error")

\* C16: when an engine call fails, in iteration 1 or 2, the task is in error
\* with the failure message, every subscriber that can still be written to
\* gets that error event as its only terminal event and is closed, the
\* subscriber set is empty, and nothing is handed to or stored by the
\* database.
C16_EngineFailure ==
    [][\A t \in TaskIds :
          EngineFails(t)
          => /\ task'[t].status = "error"
             /\ task'[t].error = "Ollama error"
             /\ task'[t].subscribers = {}
             /\ \A s \in Open(t) :
                   /\ sink'[s].queue = Append(sink[s].queue, ErrorEvent(task'[t].error))
                   /\ Terminals(sink'[s].queue) = {Len(sink'[s].queue)}
                   /\ sink'[s].closed
             /\ db' = db
             /\ trace'[t].saves = <<>>]_vars

C16_Witness ==
    \E s \in SinkIds :
        /\ sink[s].live /\ ~sink[s].cancelled /\ sink[s].closed
        /\ run[sink[s].task].iteration = 2
        /\ Len(sink[s].queue) = 2
        /\ sink[s].queue[2] = ErrorEvent("Ollama error")
        /\ TaskOf(s).status = "error"
        /\ db = <<>>

\* C17: a subscribe call on a completed or failed task leaves a stream that
\* holds the replay and then one terminal event (done for completed, error
\* with task.error for error), closed, and the subscriber set untouched; on
\* a running task it leaves a stream that holds the replay only, open, and
\* its controller added to the subscriber set.
C17_Subscribe ==
    [][Len(sink') = Len(sink) + 1
       => LET s == Len(sink')
              t == sink'[s].task
              q == sink'[s].queue
              r == sink'[s].replayed
          IN /\ \A i \in 1..r : IsChunk(q[i])
             /\ task[t].status = "completed"
                => /\ q = Append(SubSeq(q, 1, r), DoneEvent)
                   /\ sink'[s].closed
                   /\ task' = task
                   /\ s \notin task'[t].subscribers
             /\ task[t].status = "error"
                => /\ q = Append(SubSeq(q, 1, r), ErrorEvent(task[t].error))
                   /\ sink'[s].closed
                   /\ task' = task
                   /\ s \notin task'[t].subscribers
             /\ task[t].status = "running"
                => /\ Len(q) = r
                   /\ ~sink'[s].closed
                   /\ task'[t].subscribers = task[t].subscribers \cup {s}
                   /\ task'[t].status = "running"]_vars

C17_Witness ==
    \E s1 \in SinkIds, s2 \in SinkIds :
        /\ sink[s1].live /\ sink[s1].replayed = 1
        /\ ~sink[s2].live /\ sink[s2].closed
        /\ sink[s2].queue = <<ChunkEvent("Hel", 0), ErrorEvent("stream error")>>

\* C18 (as stated): a task that is completed or in error and still in the
\* registry has its removal pending: the clean-up timer is set.
C18_Original ==
    \A t \in TaskIds :
        (t \in activeTasks /\ task[t].status \in {"completed", "error"})
        => run[t].cleanup

\* C19 (as stated): a conversation has at most one running task in the
\* registry, also when chat requests for it follow each other closely.
C19_Original ==
    \A c \in ConversationIds :
        Cardinality({t \in activeTasks :
                        task[t].conversationId = c /\ task[t].status = "running"}) <= 1

\* C20 (as stated): the notices of the tools run so far are the first stored
\* chunks of the task, each with its position as index, so that they count
\* as fragments and are replayed, and a live subscriber got each of them
\* with that index.
C20_Original ==
    \A t \in TaskIds :
        /\ Len(task[t].chunks) >= Len(trace[t].tools)
        /\ \A i \in 1..Len(trace[t].tools) :
              /\ task[t].chunks[i] = [content |-> ToolNotice(trace[t].tools[i]).content,
                                      index |-> i - 1]
              /\ \A s \in SinkIds :
                    (sink[s].task = t /\ sink[s].live /\ ~sink[s].cancelled
                     /\ sink[s].stored = 0)
                    => sink[s].queue[i]
                       = ChunkEvent(ToolNotice(trace[t].tools[i]).content, i - 1)

\* The text a consumer assembles from the chunk events of its stream.
Received(s) == Join(Contents(Chunks(sink[s].queue)))

\* C21 (as stated): two subscribers that subscribed from index 0 to the same
\* task while it was running and stayed attached until it completed have
\* received the same text.
C21_Original ==
    \A s1 \in SinkIds, s2 \in SinkIds :
        (/\ sink[s1].task = sink[s2].task
         /\ sink[s1].live /\ sink[s2].live
         /\ sink[s1].fromIndex = 0 /\ sink[s2].fromIndex = 0
         /\ ~sink[s1].cancelled /\ ~sink[s2].cancelled
         /\ TaskOf(s1).status = "completed")
        => Received(s1) = Received(s2)

\* The await of a tool of task t ends, and the history entry it leaves.
ToolEnds(t) == run[t].pc = "tool" /\ run'[t] # run[t]
LastMessage(rn) == rn.messages[Len(rn.messages)]

\* The tool names executeTool dispatches.
KnownTools == {"web_search", "execute_python"}

\* C22: whatever tool name was awaited and whether the tool worked or
\* failed, the end of the await leaves one more history entry, a tool entry
\* with the JSON-encoded result text, the task still running and no
\* terminal event sent; after the last tool the runner is in iteration 2
\* and awaits a streaming call that carries the entry.
C22_ToolNeverThrows ==
    [][\A t \in TaskIds :
          ToolEnds(t)
          => /\ task'[t].status = "running"
             /\ task'[t].error = ""
             /\ Len(run'[t].messages) = Len(run[t].messages) + 1
             /\ LastMessage(run'[t]).role = "tool"
             /\ \E x \in ResultTexts : LastMessage(run'[t]).content = Stringify(x)
             /\ \A s \in SinkIds : Terminals(sink'[s].queue) = {}
             /\ IF Len(run[t].toolCalls) = 1
                THEN /\ run'[t].pc = "fetch"
                     /\ run'[t].iteration = 2
                     /\ trace'[t].calls[2].stream
                     /\ trace'[t].calls[2].messages = run'[t].messages
                ELSE run'[t].pc = "tool"]_vars

C22_Witness ==
    \E t \in TaskIds :
        /\ AskedTools(t)
        /\ Requested(t) = <<"execute_python", "web_search">>
        /\ Results(t) = 2
        /\ run[t].messages[Len(Given(t)) + 2].content
              = Stringify("Error executing execute_python")
        /\ LastMessage(run[t]).content = Stringify("Error executing web_search")
        /\ run[t].pc = "done"
        /\ task[t].fullResponse # ""

\* C23 (as stated): once the dispatch of a name that is no tool has ended,
\* the task is in error.
C23_Original ==
    \A t \in TaskIds :
        (AskedTools(t) /\ \E i \in 1..Results(t) : Requested(t)[i] \notin KnownTools)
        => task[t].status = "error"

\* C23 (amended): the dispatch of a name that is no tool ends like that of
\* any tool: the text "Error: Unknown tool" becomes a tool entry of the
\* history, the task stays running, no subscriber gets a terminal event, and
\* the runner goes on to the next tool or to the streaming iteration.
C23_Amended ==
    [][\A t \in TaskIds :
          (ToolEnds(t) /\ Head(run[t].toolCalls) \notin KnownTools)
          => /\ task'[t].status = "running"
             /\ LastMessage(run'[t])
                  = [role |-> "tool", content |-> Stringify("Error: Unknown tool")]
             /\ Len(run'[t].messages) = Len(run[t].messages) + 1
             /\ \A s \in SinkIds : Terminals(sink'[s].queue) = {}
             /\ run'[t].pc = IF Len(run[t].toolCalls) = 1 THEN "fetch" ELSE "tool"
             /\ run'[t].iteration = IF Len(run[t].toolCalls) = 1 THEN 2 ELSE 1]_vars

C23_Witness ==
    \E s \in SinkIds :
        /\ sink[s].live /\ ~sink[s].cancelled
        /\ AskedTools(sink[s].task)
        /\ Requested(sink[s].task) = <<"get_weather">>
        /\ TaskOf(s).status = "completed"
        /\ TaskOf(s).fullResponse # ""
        /\ sink[s].queue[Len(sink[s].queue)] = DoneEvent

\* The message db.addMessage stores for the answer of task t.
Answer(t) ==
    [conversationId |-> task[t].conversationId, role |-> "assistant",
     content |-> task[t].fullResponse]
Stored(m) == \E i \in 1..Len(db) : db[i] = m
SawDone(s) == \E i \in 1..Len(sink[s].queue) : sink[s].queue[i] = DoneEvent

\* C24: a runner that ended normally left its task completed with
\* completedAt set, the answer saved when it is not empty, the subscriber
\* set empty and the removal scheduled; a stream that holds done belongs to
\* such a task, so the answer was saved before done was sent, and is
\* closed; and when the save itself failed, completed had been written
\* before it, and no done was sent and no removal scheduled after it.
C24_Order ==
    \A t \in TaskIds :
        /\ run[t].pc = "done"
           => /\ task[t].status = "completed" /\ task[t].completedAt
              /\ task[t].fullResponse # ""
                 => Stored(Answer(t)) /\ trace[t].saves = <<task[t].fullResponse>>
              /\ task[t].subscribers = {}
              /\ run[t].cleanup \/ t \notin activeTasks
        /\ \A s \in SinkIds :
              (sink[s].task = t /\ SawDone(s))
              => /\ run[t].pc = "done"
                 /\ sink[s].closed
                 /\ task[t].fullResponse # "" => Stored(Answer(t))
        /\ (task[t].status = "error" /\ trace[t].saves # <<>>)
           => /\ trace[t].status = <<"running", "completed", "error">>
              /\ ~run[t].cleanup
              /\ \A s \in SinkIds : sink[s].task = t => ~SawDone(s)

C24_Witness ==
    \E s \in SinkIds :
        /\ sink[s].live /\ SawDone(s) /\ sink[s].closed
        /\ Stored(Answer(sink[s].task))
        /\ TaskOf(s).fullResponse # ""
        /\ run[sink[s].task].cleanup

C26_Notices ==
    \A s \in SinkIds :
        LET t == sink[s].task
            q == sink[s].queue
            k == Len(trace[t].tools)
            c == Len(task[t].chunks)
        IN (/\ AskedTools(t)
            /\ sink[s].live /\ ~sink[s].cancelled
            /\ sink[s].noticed = 0 /\ sink[s].fromIndex = 0)
           => /\ trace[t].tools = SubSeq(Requested(t), 1, k)
              /\ run[t].pc # "tool" => k = Len(Requested(t))
              /\ run[t].pc = "tool" => c = 0
              /\ Len(q) \in {k + c, k + c + 1}
              /\ \A i \in 1..k :
                    q[i] = ChunkEvent("Executing " \o Requested(t)[i], -1)
              /\ SubSeq(q, k + 1, k + c) = ChunkEvents(Fragments(trace[t].texts))
              /\ Len(q) = k + c + 1
                 => IsTerminal(q[k + c + 1]) /\ task[t].status # "running"
              /\ run[t].pc = "done"
                 => /\ task[t].fullResponse = Join(trace[t].texts)
                    /\ trace[t].saves
                          = IF Join(trace[t].texts) = "" THEN <<>>
                            ELSE <<Join(trace[t].texts)>>
                    /\ Join(trace[t].texts) # "" <=> Stored(Answer(t))

C26_Witness ==
    \E s \in SinkIds :
        /\ AskedTools(sink[s].task)
        /\ Requested(sink[s].task) = <<"execute_python", "web_search">>
        /\ sink[s].live /\ ~sink[s].cancelled /\ sink[s].noticed = 0
        /\ sink[s].queue = <<ChunkEvent("Executing execute_python", -1),
                             ChunkEvent("Executing web_search", -1),
                             ChunkEvent("Hel", 0), ChunkEvent("lo", 1), DoneEvent>>
        /\ Stored([conversationId |-> "c1", role |-> "assistant", content |-> "Hello"])

\* The first, non-streaming response of task t came and asked for no tool.
AnsweredDirectly(t) ==
    /\ run[t].useSearch \/ run[t].useCode
    /\ ~AskedTools(t)
    /\ run[t].pc \in {"done", "failed"}
    /\ task[t].error # "Ollama error"

C29_StartTask ==
    [][Len(task') = Len(task) + 1
       => LET t == Len(task')
          IN /\ t \notin DOMAIN task /\ t \notin activeTasks
             /\ activeTasks' = activeTasks \cup {t}
             /\ task'[t].id = t
             /\ task'[t].status = "running"
             /\ task'[t].chunks = <<>> /\ task'[t].fullResponse = ""
             /\ task'[t].subscribers = {}
             /\ run'[t].pc = "fetch" /\ run'[t].iteration = 1
             /\ Len(trace'[t].calls) = 1
             /\ trace'[t].reads = 0 /\ trace'[t].texts = <<>>
             /\ \A u \in DOMAIN task :
                   task'[u] = task[u] /\ run'[u] = run[u] /\ trace'[u] = trace[u]
             /\ sink' = sink]_vars

C29_Witness ==
    /\ Len(task) = 2
    /\ 1 \notin activeTasks
    /\ task[1].status = "completed" /\ Len(task[1].chunks) = 2
    /\ 2 \in activeTasks
    /\ run[2].pc = "fetch" /\ run[2].iteration = 1
    /\ Len(run[2].messages) = 4

\* The running tasks of a conversation in the registry.
Running(c) ==
    {t \in activeTasks : task[t].conversationId = c /\ task[t].status = "running"}

\* C30: getActiveTaskForConversation(c) returns the id of a task that is in
\* the registry, belongs to c and is running, when there is one, and null
\* when there is none, that is when every task of c is completed, in error
\* or removed; the call changes nothing.
C30_ActiveTask ==
    [][(reply' # reply /\ reply'.op = "getActiveTaskForConversation")
       => LET r == reply'.result
          IN /\ (r = Null) <=> (Running(reply'.conversationId) = {})
             /\ r # Null
                => r.kind = "taskId" /\ r.id \in Running(reply'.conversationId)
             /\ UNCHANGED <<activeTasks, task, run, sink, db, trace>>]_vars

C30_Witness ==
    /\ reply.op = "getActiveTaskForConversation"
    /\ reply.conversationId = "c1"
    /\ reply.result = Null
    /\ Len(task) = 2
    /\ task[1].conversationId = "c1" /\ task[2].conversationId = "c1"
    /\ task[1].status = "error" /\ 1 \in activeTasks
    /\ task[2].status = "completed" /\ 2 \notin activeTasks

\* The keep-alive frames of a queue.
Beats(queue) == SelectSeq(queue, LAMBDA e : e = KeepAlive)

\* C31: a keep-alive tick leaves the task as it is (chunks, fullResponse,
\* status and all), fires only while the task is running, and adds one
\* keep-alive frame to every open subscriber and nothing else; the timer is
\* cleared once the task is completed or in error; a stream that is opened
\* is never replayed a keep-alive frame.
C31_HeartbeatFrame ==
    [][\A t \in TaskIds :
          /\ KeepAlivePush(t)
             => /\ task[t].status = "running"
                /\ task'[t] = task[t]
                /\ db' = db
                /\ \A s \in SinkIds :
                      Chunks(sink'[s].queue) = Chunks(sink[s].queue)
          /\ task'[t].status # "running" => ~run'[t].keepAlive
          /\ \A s \in DOMAIN sink' \ DOMAIN sink :
                Beats(sink'[s].queue) = <<>>]_vars

\* A subscriber got a keep-alive and then the answer; a stream opened after
\* the task completed is replayed the answer without the keep-alive.
C31_Witness ==
    \E s1 \in SinkIds, s2 \in SinkIds :
        /\ sink[s1].task = sink[s2].task
        /\ TaskOf(s1).status = "completed"
        /\ sink[s1].queue = <<KeepAlive, ChunkEvent("Hel", 0), DoneEvent>>
        /\ ~sink[s2].live
        /\ sink[s2].queue = <<ChunkEvent("Hel", 0), DoneEvent>>
        /\ trace[sink[s1].task].beats = 1

\* The messages of the failures of an engine call, of an engine stream and
\* of the database.
FailureTexts == {"Ollama error", "stream error", "database error"}

\* C32: in every state a task has its error field set exactly when its
\* status is error, and the field then holds the message of the failure.
C32_ErrorField ==
    \A t \in TaskIds :
        /\ task[t].error # "" <=> task[t].status = "error"
        /\ task[t].status = "error" => task[t].error \in FailureTexts

\* A task whose save failed after it was marked completed: its status is
\* error and the message is recorded.
C32_Witness ==
    \E t \in TaskIds :
        /\ trace[t].status = <<"running", "completed", "error">>
        /\ task[t].status = "error"
        /\ task[t].error = "database error"

\* The history entries a tool name can give: the texts executeTool returns
\* for it, JSON-encoded.
ResultEntries(toolName) ==
    {[role |-> "tool", content |-> Stringify(r.text)] : r \in executeTool(toolName)}

\* C33: after the first response asked for m tools, the history is the
\* history the task was given, then the engine's tool-request message, then
\* one result entry per tool that returned, entry i being a result of the
\* i-th requested tool; the tools invoked so far are the first requested
\* ones, one more than the results while a tool is awaited; the second
\* engine call is made once all m results are there, streams, and carries
\* exactly that history, which stays as it is from then on.
C33_History ==
    \A t \in TaskIds :
        AskedTools(t)
        => LET m == Len(Requested(t))
               k == Len(Given(t))
               msgs == run[t].messages
           IN /\ SubSeq(msgs, 1, k) = Given(t)
              /\ msgs[k + 1] = [role |-> "assistant", tool_calls |-> Requested(t)]
              /\ Results(t) <= m
              /\ \A i \in 1..Results(t) : msgs[k + 1 + i] \in ResultEntries(Requested(t)[i])
              /\ Len(trace[t].tools) = IF Results(t) < m THEN Results(t) + 1 ELSE m
              /\ \A i \in 1..Len(trace[t].tools) : trace[t].tools[i] = Requested(t)[i]
              /\ Len(trace[t].calls) = IF Results(t) < m THEN 1 ELSE 2
              /\ Len(trace[t].calls) = 2
                 => /\ trace[t].calls[2].stream
                    /\ trace[t].calls[2].messages = msgs
                    /\ Len(msgs) = k + 1 + m

\* Python, then the web search, which failed: both results are in the
\* history in this order, and the second call streams with them.
C33_Witness ==
    \E t \in TaskIds :
        /\ AskedTools(t)
        /\ Requested(t) = <<"execute_python", "web_search">>
        /\ SubSeq(run[t].messages, Len(Given(t)) + 2, Len(run[t].messages)) =
              <<[role |-> "tool", content |-> Stringify("4")],
                [role |-> "tool", content |-> Stringify("Error executing web_search")]>>
        /\ Len(trace[t].calls) = 2
        /\ run[t].pc = "stream"
        /\ trace[t].reads = MaxLines

\* The runner of task t handles a line of the engine's stream: one that
\* gives no fragment (blank, not JSON, no message content), or one that does.
LineSkipped(t) ==
    /\ trace'[t].reads = trace[t].reads + 1
    /\ trace'[t].texts = trace[t].texts
LineAppended(t) ==
    /\ trace'[t].reads = trace[t].reads + 1
    /\ Len(trace'[t].texts) = Len(trace[t].texts) + 1

\* C34: a line of the engine's stream that is blank, is not JSON or has no
\* message content adds no fragment, takes no index and sends no chunk event,
\* and the task is not put in error by it (when the line is the last of the
\* stream the task completes, and is in error only if the save of the answer
\* failed); a line with content, whatever lines came before it, is stored
\* with the index that is the number of fragments stored so far, and is sent
\* with that index to every open subscriber.
C34_MalformedLine ==
    [][\A t \in TaskIds :
          /\ LineSkipped(t)
             => /\ task'[t].chunks = task[t].chunks
                /\ run'[t].chunkIndex = run[t].chunkIndex
                /\ \A s \in SinkIds : Chunks(sink'[s].queue) = Chunks(sink[s].queue)
                /\ task'[t].status = "error" => trace'[t].saves # trace[t].saves
                /\ run'[t].pc \in {"stream", "done", "failed"}
                /\ run'[t].pc = "stream" => task'[t].status = "running"
          /\ LineAppended(t)
             => LET text == trace'[t].texts[Len(trace'[t].texts)]
                    index == Len(task[t].chunks)
                IN /\ task'[t].chunks = Append(task[t].chunks,
                                               [content |-> text, index |-> index])
                   /\ run'[t].chunkIndex = index + 1
                   /\ \A s \in Open(t) :
                         /\ Len(sink'[s].queue) > Len(sink[s].queue)
                         /\ sink'[s].queue[Len(sink[s].queue) + 1] =
                               ChunkEvent(text, index)]_vars

\* A line was read that gave no fragment: the stream goes on, the task is
\* running without a fragment and its subscriber was sent nothing.
C34_Witness ==
    \E t \in TaskIds, s \in SinkIds :
        /\ run[t].pc = "stream"
        /\ trace[t].reads = 1
        /\ trace[t].texts = <<>>
        /\ task[t].status = "running"
        /\ task[t].chunks = <<>>
        /\ run[t].chunkIndex = 0
        /\ s \in task[t].subscribers
        /\ sink[s].queue = <<>>

\* The terminal event of a task that is completed or in error.
TerminalEvent(tk) ==
    IF tk.status = "completed" THEN DoneEvent ELSE ErrorEvent(tk.error)

\* C35: a task that is completed or in error has no subscriber.  Each of its
\* streams accepts nothing more: one the consumer had not cancelled, attached
\* before the end or opened after it, holds the task's terminal event as its
\* last event and is closed.  A task that was removed from the registry is
\* completed, and so has no subscriber either.
C35_NoSubscribers ==
    \A t \in TaskIds :
        /\ task[t].status \in {"completed", "error"}
           => /\ task[t].subscribers = {}
              /\ \A s \in SinkIds :
                    sink[s].task = t
                    => /\ ~CanEnqueue(sink[s])
                       /\ ~sink[s].cancelled
                          => /\ sink[s].closed
                             /\ sink[s].queue # <<>>
                             /\ sink[s].queue[Len(sink[s].queue)] = TerminalEvent(task[t])
        /\ t \notin activeTasks
           => task[t].status = "completed" /\ task[t].subscribers = {}

\* A completed task was removed from the registry: the subscriber attached
\* while it ran and the stream opened after its end both hold the answer
\* and done, both are closed, and the subscriber set is empty.
C35_Witness ==
    \E t \in TaskIds, s1 \in SinkIds, s2 \in SinkIds :
        /\ t \notin activeTasks
        /\ sink[s1].task = t /\ sink[s2].task = t
        /\ sink[s1].live /\ ~sink[s2].live
        /\ sink[s1].closed /\ sink[s2].closed
        /\ sink[s1].queue = <<ChunkEvent("lo", 0), DoneEvent>>
        /\ sink[s2].queue = sink[s1].queue
        /\ task[t].subscribers = {}

\* C36: whatever the tool flags and the engine's responses are, a task makes
\* one or two engine calls, as many as its iteration counter says; the first
\* call carries the enabled tools and streams only when there are none; a
\* second call is made only by a task with tools, carries no tool list and
\* streams.
C36_TwoCalls ==
    \A t \in TaskIds :
        LET calls == trace[t].calls
            tools == activeTools(run[t].useSearch, run[t].useCode)
        IN /\ Len(calls) \in {1, 2}
           /\ run[t].iteration = Len(calls)
           /\ calls[1].tools = tools
           /\ calls[1].stream <=> tools = <<>>
           /\ \A i \in 2..Len(calls) :
                 /\ calls[i].stream
                 /\ calls[i].tools = <<>>
                 /\ tools # <<>>

\* A task with both tools ran a tool round and its second call failed: the
\* first call carried both tools, the second none, and there is no third.
C36_Witness ==
    \E t \in TaskIds :
        /\ run[t].useSearch /\ run[t].useCode
        /\ Len(trace[t].calls) = 2
        /\ trace[t].calls[1].tools = <<"web_search", "execute_python">>
        /\ ~trace[t].calls[1].stream
        /\ trace[t].calls[2].tools = <<>>
        /\ trace[t].calls[2].stream
        /\ run[t].pc = "failed"
        /\ trace[t].reads = 0

\* The runner or a timer of task t takes a step.
Acts(t) == run'[t] # run[t] \/ trace'[t] # trace[t]

\* The events a step adds to the stream s.
Added(s) == SubSeq(sink'[s].queue, Len(sink[s].queue) + 1, Len(sink'[s].queue))

\* C37: with several tasks, of one conversation or of several, a step of the
\* runner or of a timer of task a leaves every other task, its runner and
\* its streams as they are; a stream is given an event only by a step of its
\* own task and only when it is in that task's subscriber set, a chunk event
\* being the fragment that task stored in the step and a terminal event the
\* terminal event of that task; a stream is a member of the subscriber set
\* of its own task only; a new task and a new stream leave every task that
\* exists, but for the subscriber set the stream joins, as it is.
C37_Isolation ==
    [][/\ \A a \in TaskIds : \A b \in TaskIds \ {a} :
             Acts(a) => /\ task'[b] = task[b]
                        /\ run'[b] = run[b]
                        /\ trace'[b] = trace[b]
                        /\ \A s \in SinkIds : sink[s].task = b => sink'[s] = sink[s]
       /\ \A s \in SinkIds :
             Added(s) # <<>>
             => LET a == sink[s].task
                IN /\ Acts(a)
                   /\ s \in task[a].subscribers
                   /\ Len(Added(s)) <= 2
                   /\ \A i \in 1..Len(Added(s)) :
                         LET e == Added(s)[i]
                         IN /\ IsChunk(e)
                               => /\ Len(task'[a].chunks) = Len(task[a].chunks) + 1
                                  /\ e = ChunkEvent(task'[a].chunks[Len(task'[a].chunks)].content,
                                                    Len(task[a].chunks))
                            /\ IsTerminal(e)
                               => /\ task[a].status = "running"
                                  /\ e = TerminalEvent(task'[a])
                            /\ e = KeepAlive => KeepAlivePush(a)
       /\ \A t \in DOMAIN task' : \A s \in task'[t].subscribers :
             s \in DOMAIN sink' /\ sink'[s].task = t
       /\ \A b \in TaskIds :
             Len(task') > Len(task) => task'[b] = task[b]
       /\ \A b \in TaskIds :
             Len(sink') > Len(sink)
             => /\ [task'[b] EXCEPT !.subscribers = {}] = [task[b] EXCEPT !.subscribers = {}]
                /\ task'[b].subscribers \ task[b].subscribers
                      \subseteq IF sink'[Len(sink')].task = b THEN {Len(sink')} ELSE {}
                /\ \A s \in SinkIds : sink'[s] = sink[s]]_vars

\* Two tasks of one conversation, each with its own subscriber: the first
\* completed and its subscriber holds its answer and done; the second is
\* still running and its subscriber holds a keep-alive and its fragment.
C37_Witness ==
    /\ Len(task) = 2 /\ Len(sink) = 2
    /\ task[1].conversationId = task[2].conversationId
    /\ sink[1].task = 1 /\ sink[2].task = 2
    /\ task[1].status = "completed"
    /\ sink[1].queue = <<ChunkEvent("Hel", 0), DoneEvent>>
    /\ task[2].status = "running"
    /\ task[2].subscribers = {2}
    /\ sink[2].queue = <<KeepAlive, ChunkEvent("lo", 0)>>

\* A read of the engine's stream of task t throws.
StreamFails(t) ==
    /\ run[t].pc = "stream"
    /\ run'[t].pc = "failed"
    /\ trace'[t].status = Append(trace[t].status, "error")

\* The stream of task t failed before.
StreamFailed(t) == run[t].pc = "failed" /\ task[t].error = "stream error"

\* C38: when a read of the engine's stream throws after j fragments were
\* stored, the task is in error with the message of the failure, its j
\* fragments stay in task.chunks, and nothing is handed to the database;
\* from then on the task stays in the registry with these fragments, and
\* every stream opened on it from index 0 holds the j fragments in order,
\* then one error event with that message, and is closed.
C38_StreamFailure ==
    [][\A t \in TaskIds :
          /\ StreamFails(t)
             => /\ task'[t].status = "error"
                /\ task'[t].error = "stream error"
                /\ task'[t].chunks = task[t].chunks
                /\ task'[t].chunks = Fragments(trace[t].texts)
                /\ db' = db
                /\ trace'[t].saves = <<>>
          /\ StreamFailed(t)
             => /\ task'[t].chunks = task[t].chunks
                /\ task'[t].chunks = Fragments(trace[t].texts)
                /\ task'[t].status = "error"
                /\ t \in activeTasks'
                /\ trace'[t].saves = <<>>
                /\ \A s \in DOMAIN sink' \ DOMAIN sink :
                      (sink'[s].task = t /\ sink'[s].fromIndex = 0)
                      => /\ sink'[s].queue =
                               Append(ChunkEvents(task[t].chunks), ErrorEvent("stream error"))
                         /\ sink'[s].closed
                         /\ ~sink'[s].live]_vars

\* The stream failed after the fragment "lo": the task is in error with an
\* empty fullResponse, nothing is stored, and a stream opened afterwards
\* from index 0 holds "lo" and the error.
C38_Witness ==
    \E t \in TaskIds, s \in SinkIds :
        /\ StreamFailed(t)
        /\ task[t].chunks = <<[content |-> "lo", index |-> 0]>>
        /\ task[t].fullResponse = ""
        /\ db = <<>>
        /\ sink[s].task = t /\ sink[s].fromIndex = 0 /\ ~sink[s].live
        /\ sink[s].queue = <<ChunkEvent("lo", 0), ErrorEvent("stream error")>>

\* The tasks that were removed from the registry.
Removed == TaskIds \ activeTasks

\* C39: a task that leaves the registry is completed, never running; a task
\* that left it is not put back, and no new task gets its id: the ids that
\* enter the registry are ids no task had before; getTaskStatus finds no
\* removed task, getActiveTaskForConversation returns none, no stream is
\* opened on one, and a lookup by its id returns null.
C39_Removal ==
    [][/\ \A t \in activeTasks \ activeTasks' :
             /\ task[t].status = "completed"
             /\ run[t].pc = "done"
       /\ activeTasks' \ activeTasks \subseteq DOMAIN task' \ DOMAIN task
       /\ \A t \in Removed :
             /\ t \notin activeTasks'
             /\ getTaskStatus(t) = Null
             /\ \A c \in ConversationIds :
                   getActiveTaskForConversation(c) # [kind |-> "taskId", id |-> t]
             /\ \A s \in DOMAIN sink' \ DOMAIN sink : sink'[s].task # t
             /\ reply' # reply
                => /\ reply'.taskId = t => reply'.result = Null
                   /\ reply'.result # [kind |-> "taskId", id |-> t]]_vars

\* The first task of a conversation completed and was removed, a second
\* task of the conversation was started afterwards with a new id, and the
\* lookup by conversation returned the second.
C39_Witness ==
    /\ Len(task) = 2
    /\ activeTasks = {2}
    /\ task[1].status = "completed"
    /\ task[2].conversationId = task[1].conversationId
    /\ task[2].id = 2
    /\ task[2].status = "running"
    /\ reply = Reply("getActiveTaskForConversation", 0, task[1].conversationId,
                     [kind |-> "taskId", id |-> 2])
====
